---- MODULE Spec2Model ----
(***************************************************************************)
(* Model of the summarize-video edge function                              *)
(* (supabase/functions/summarize-video/index.ts): the request handler,     *)
(* extractVideoId, fetchTranscript, fetchVideoTitle and summarizeWithAI,   *)
(* with the 'summaries' table as the only state that outlives a request.   *)
(*                                                                         *)
(* Text is a sequence of one-character strings, so that the regular        *)
(* expressions of the source are computed character by character.  A       *)
(* JavaScript value that may be a string, null or undefined is a record    *)
(* [t, s]: t is the type tag and s the characters (empty unless t = "str"; *)
(* for a number, its decimal digits).                                      *)
(***************************************************************************)
EXTENDS Integers, Sequences, FiniteSets, TLC

VARIABLES
    pc,             \* where the handler stands in the current request
    req,            \* the request being served: [method, json, videoUrl]
    videoUrl,       \* const { videoUrl } = await req.json()
    videoId,        \* const videoId = extractVideoId(videoUrl)
    transcript,     \* const transcript = await fetchTranscript(videoId)
    videoTitle,     \* const videoTitle = await fetchVideoTitle(videoId)
    summary,        \* let summary
    prompt,         \* the (transcript, title) arguments given to summarizeWithAI
    calls,          \* the outbound calls of the current request, in order
    thrown,         \* the statement whose exception reached the handler's catch
    response,       \* the Response returned for the current request
    titleResp,      \* what the title lookup answered in this request
    completionResp, \* what the completion endpoint answered in this request
    store,          \* the rows of the 'summaries' table, in insertion order
    log,            \* one entry per finished request: its status and record id
    fn              \* a single call of one function, for the function specifications

handlerVars == <<pc, req, videoUrl, videoId, transcript, videoTitle, summary,
                 prompt, calls, thrown, response, titleResp, completionResp,
                 store, log>>
vars == <<pc, req, videoUrl, videoId, transcript, videoTitle, summary,
          prompt, calls, thrown, response, titleResp, completionResp,
          store, log, fn>>

----------------------------------------------------------------------------
(* JavaScript values *)

Str(s) == [t |-> "str", s |-> s]
Null == [t |-> "null", s |-> <<>>]
Undefined == [t |-> "undefined", s |-> <<>>]
Num(digits) == [t |-> "num", s |-> digits]
Obj == [t |-> "obj", s |-> <<>>]

\* a mutant of Falsy: a comparison with undefined in place of !v
Falsy_UndefinedOnly(v) == v.t = "undefined"

\* a mutant of Falsy: a comparison with null and undefined in place of !v
Falsy_NullishOnly(v) == v.t \in {"undefined", "null"}

\* !v : the falsy values among those the model holds (undefined, null, "", 0)
Falsy(v) ==
    \/ v.t \in {"undefined", "null"}
    \/ v.t = "str" /\ v.s = <<>>
    \/ v.t = "num" /\ v.s = <<"0">>

\* the outcome of a call: a returned value, or an exception
Return(v) == [kind |-> "return", value |-> v]
Throw(what) == [kind |-> "throw", value |-> Str(<<what>>)]

----------------------------------------------------------------------------
(* extractVideoId, index.ts lines 111-123 *)

WatchMarker == <<"y","o","u","t","u","b","e",".","c","o","m","/",
                 "w","a","t","c","h","?","v","=">>
ShortMarker == <<"y","o","u","t","u",".","b","e","/">>
EmbedMarker == <<"y","o","u","t","u","b","e",".","c","o","m","/",
                 "e","m","b","e","d","/">>

\* the alternatives of the non-capturing group of the first pattern, in order
Alternatives == <<WatchMarker, ShortMarker, EmbedMarker>>

\* a mutant of Terminators: the character class without its '#'
Terminators_NoHash == {"&", "\n", "?"}

\* the characters the capture [^&\n?#]+ stops at
Terminators == {"&", "\n", "?", "#"}

\* [a-zA-Z0-9_-]
IdChars ==
    {"a","b","c","d","e","f","g","h","i","j","k","l","m",
     "n","o","p","q","r","s","t","u","v","w","x","y","z",
     "A","B","C","D","E","F","G","H","I","J","K","L","M",
     "N","O","P","Q","R","S","T","U","V","W","X","Y","Z",
     "0","1","2","3","4","5","6","7","8","9","_","-"}

\* {11}
IdLen == 11

\* whether the characters of m stand in s from position i on
StartsWithAt(s, i, m) ==
    /\ i + Len(m) - 1 <= Len(s)
    /\ \A k \in 1..Len(m) : s[i + k - 1] = m[k]

\* the last position of the longest run of non-terminators that starts at i
\* (i - 1 when the run is empty): the greedy [^&\n?#]+
RunEnd(s, i) ==
    CHOOSE e \in (i - 1)..Len(s) :
        /\ \A k \in i..e : s[k] \notin Terminators
        /\ e = Len(s) \/ s[e + 1] \in Terminators

\* the alternatives that match at position i with a non-empty capture after
AltsAt(s, i) ==
    {a \in 1..Len(Alternatives) :
        /\ StartsWithAt(s, i, Alternatives[a])
        /\ RunEnd(s, i + Len(Alternatives[a])) >= i + Len(Alternatives[a])}

\* url.match(patterns[0]): the leftmost match's capture group, or null
MatchUrlPattern(s) ==
    LET starts == {i \in 1..Len(s) : AltsAt(s, i) # {}}
    IN  IF starts = {} THEN Null
        ELSE LET i == CHOOSE j \in starts : \A k \in starts : j <= k
                 a == CHOOSE b \in AltsAt(s, i) : \A c \in AltsAt(s, i) : b <= c
                 from == i + Len(Alternatives[a])
             IN  Str(SubSeq(s, from, RunEnd(s, from)))

\* url.match(patterns[1]): /^([a-zA-Z0-9_-]{11})$/
MatchBarePattern(s) ==
    IF Len(s) = IdLen /\ \A k \in 1..Len(s) : s[k] \in IdChars
    THEN Str(s) ELSE Null

\* the loop over the two patterns: the first that matches wins
ExtractVideoId(s) ==
    IF MatchUrlPattern(s) # Null THEN MatchUrlPattern(s) ELSE MatchBarePattern(s)

\* extractVideoId on any JavaScript value: url.match is a function only of a string
ExtractVideoIdCall(v) ==
    IF v.t = "str" THEN Return(ExtractVideoId(v.s))
    ELSE Throw("url.match is not a function")

----------------------------------------------------------------------------
(* The video page and JSON.parse.                                          *)
(* A page body, and the text handed to JSON.parse, is a sequence of        *)
(* lexical tokens: the six punctuation marks of JSON, "<html>" for markup  *)
(* that is no JSON, and any other token for a quoted JSON string (a key or *)
(* a value).  No string token holds a brace or a bracket.                  *)

Punct == {"{", "}", "[", "]", ":", ","}
Markup == {"<html>"}
IsStringToken(tok) == tok \notin Punct \cup Markup

ParseFail == [ok |-> FALSE, val |-> Undefined, next |-> 0]
ParseOk(v, n) == [ok |-> TRUE, val |-> v, next |-> n]
JStr(tok) == [t |-> "str", v |-> tok]
JObj(members) == [t |-> "obj", v |-> members]
JArr(elements) == [t |-> "arr", v |-> elements]

RECURSIVE ParseValue(_, _), ParseMembers(_, _, _), ParseElements(_, _, _)

\* one JSON value starting at token i: [ok, val, next]
ParseValue(toks, i) ==
    IF i > Len(toks) THEN ParseFail
    ELSE IF toks[i] = "{" THEN
        IF i + 1 <= Len(toks) /\ toks[i + 1] = "}" THEN ParseOk(JObj(<<>>), i + 2)
        ELSE ParseMembers(toks, i + 1, <<>>)
    ELSE IF toks[i] = "[" THEN
        IF i + 1 <= Len(toks) /\ toks[i + 1] = "]" THEN ParseOk(JArr(<<>>), i + 2)
        ELSE ParseElements(toks, i + 1, <<>>)
    ELSE IF IsStringToken(toks[i]) THEN ParseOk(JStr(toks[i]), i + 1)
    ELSE ParseFail

\* the members of an object from token i on, after '{' or ','
ParseMembers(toks, i, acc) ==
    IF i + 1 > Len(toks) \/ ~IsStringToken(toks[i]) \/ toks[i + 1] # ":" THEN ParseFail
    ELSE LET r == ParseValue(toks, i + 2)
         IN  IF ~r.ok \/ r.next > Len(toks) THEN ParseFail
             ELSE LET members == Append(acc, [key |-> toks[i], val |-> r.val])
                  IN  IF toks[r.next] = "}" THEN ParseOk(JObj(members), r.next + 1)
                      ELSE IF toks[r.next] = "," THEN ParseMembers(toks, r.next + 1, members)
                      ELSE ParseFail

\* the elements of an array from token i on, after '[' or ','
ParseElements(toks, i, acc) ==
    LET r == ParseValue(toks, i)
    IN  IF ~r.ok \/ r.next > Len(toks) THEN ParseFail
        ELSE LET elements == Append(acc, r.val)
             IN  IF toks[r.next] = "]" THEN ParseOk(JArr(elements), r.next + 1)
                 ELSE IF toks[r.next] = "," THEN ParseElements(toks, r.next + 1, elements)
                 ELSE ParseFail

\* JSON.parse(text): the whole text is one value, or a SyntaxError
JsonParse(toks) ==
    LET r == ParseValue(toks, 1)
    IN  IF r.ok /\ r.next = Len(toks) + 1 THEN Return(r.val)
        ELSE Throw("SyntaxError")

\* value?.key : undefined unless value is an object with that member
\* (of two members with one key, JSON.parse keeps the last)
Member(value, key) ==
    IF value.t # "obj" THEN [t |-> "undefined", v |-> ""]
    ELSE LET at == {k \in 1..Len(value.v) : value.v[k].key = key}
         IN  IF at = {} THEN [t |-> "undefined", v |-> ""]
             ELSE value.v[CHOOSE k \in at : \A l \in at : l <= k].val

\* pageHtml.match(/"captions":(\{[^}]+captionTracks[^}]+\})/) is not null.
\* The quotes around captionTracks are the one character each [^}]+ needs.
PlayerResponseMatch(toks) ==
    \E i \in 1..Len(toks) :
        /\ i + 2 <= Len(toks)
        /\ toks[i] = "captions" /\ toks[i + 1] = ":" /\ toks[i + 2] = "{"
        /\ \E j \in (i + 3)..Len(toks) :
              /\ toks[j] = "captionTracks"
              /\ \A x \in (i + 3)..(j - 1) : toks[x] # "}"
              /\ \E m \in (j + 1)..Len(toks) :
                    /\ toks[m] = "}"
                    /\ \A x \in (j + 1)..(m - 1) : toks[x] # "}"

\* the matches <<i, j, m>> of
\*   "captions":(\{"playerCaptionsTracklistRenderer":\{[^}]+?"captionTracks":\[[^\]]+\][^}]*\}\})
\* i: "captions"; j: "captionTracks"; m: the first of the two closing braces
FullCaptionsMatches(toks) ==
    {c \in {i \in 1..Len(toks) : toks[i] = "captions"}
            \X {j \in 1..Len(toks) : toks[j] = "captionTracks"}
            \X {m \in 1..Len(toks) : toks[m] = "}"} :
        LET i == c[1]
            j == c[2]
            m == c[3]
        IN  /\ i + 5 < j /\ j + 2 < m /\ m + 1 <= Len(toks)
            /\ toks[i] = "captions" /\ toks[i + 1] = ":" /\ toks[i + 2] = "{"
            /\ toks[i + 3] = "playerCaptionsTracklistRenderer"
            /\ toks[i + 4] = ":" /\ toks[i + 5] = "{"
            \* [^}]+? : at least one character before the quote of "captionTracks"
            /\ j >= i + 7
            /\ \A x \in (i + 6)..(j - 1) : toks[x] # "}"
            /\ toks[j] = "captionTracks" /\ toks[j + 1] = ":" /\ toks[j + 2] = "["
            \* [^\]]+\] then [^}]*\}\}
            /\ \E k \in (j + 4)..(m - 1) :
                  /\ toks[k] = "]"
                  /\ \A x \in (j + 3)..(k - 1) : toks[x] # "]"
                  /\ \A x \in (k + 1)..(m - 1) : toks[x] # "}"
            /\ toks[m] = "}" /\ toks[m + 1] = "}"}

\* fullCaptionsMatch[1], or <<>> when the pattern does not match: the
\* leftmost match, with the lazy [^}]+? as short as a match allows
FullCaptionsMatch(toks) ==
    LET ms == FullCaptionsMatches(toks)
    IN  IF ms = {} THEN <<>>
        ELSE LET c == CHOOSE d \in ms :
                        \A e \in ms : d[1] < e[1] \/ (d[1] = e[1] /\ d[2] <= e[2])
             IN  SubSeq(toks, c[1] + 2, c[3] + 1)

----------------------------------------------------------------------------
(* fetchTranscript, index.ts lines 125-202 *)

\* What a fetch answers.  arrives: the promise resolves (FALSE: it rejects
\* with a network error); ok: response.ok; body: the body.
\* A page body is a token sequence.  A caption body is [shape, events]:
\*   shape "undecodable": response.json() rejects;  "null": the JSON null;
\*   "noEvents": an object with no events member;  "events": { events: [...] }.
\* An event is [hasSegs, segs]; a segment is its utf8 value: Str(chars), or
\* Undefined when the segment has no utf8 member.
Rejected(body) == [arrives |-> FALSE, ok |-> FALSE, body |-> body]
Answer(ok, body) == [arrives |-> TRUE, ok |-> ok, body |-> body]

WhiteSpace == {" ", "\t", "\n"}

RECURSIVE ConcatAll(_)
\* array.join('') of texts
ConcatAll(texts) ==
    IF texts = <<>> THEN <<>> ELSE Head(texts) \o ConcatAll(Tail(texts))

RECURSIVE JoinWithSpace(_)
\* array.join(' ') of texts
JoinWithSpace(texts) ==
    IF texts = <<>> THEN <<>>
    ELSE IF Len(texts) = 1 THEN Head(texts)
    ELSE Head(texts) \o <<" ">> \o JoinWithSpace(Tail(texts))

\* string.replace(/\n/g, ' ')
NewlinesToSpaces(s) == [k \in 1..Len(s) |-> IF s[k] = "\n" THEN " " ELSE s[k]]

\* string.trim()
Trim(s) ==
    LET solid == {k \in 1..Len(s) : s[k] \notin WhiteSpace}
    IN  IF solid = {} THEN <<>>
        ELSE SubSeq(s, CHOOSE a \in solid : \A b \in solid : a <= b,
                       CHOOSE a \in solid : \A b \in solid : a >= b)

\* seg.utf8 under join(''): undefined joins as the empty string
SegText(seg) == IF seg.t = "str" THEN seg.s ELSE <<>>

\* event.segs.map(seg => seg.utf8).join('')
EventText(event) == ConcatAll([k \in 1..Len(event.segs) |-> SegText(event.segs[k])])

\* a mutant of Flatten: the events joined with no separator
Flatten_NoSeparator(events) ==
    LET kept == SelectSeq(events, LAMBDA e : e.hasSegs)
    IN  Trim(NewlinesToSpaces(ConcatAll([k \in 1..Len(kept) |-> EventText(kept[k])])))

\* lines 188-195: filter, map, join(' '), replace, trim
Flatten(events) ==
    LET kept == SelectSeq(events, LAMBDA e : e.hasSegs)
    IN  Trim(NewlinesToSpaces(JoinWithSpace([k \in 1..Len(kept) |-> EventText(kept[k])])))

Returned(v, made) == [kind |-> "return", value |-> v, calls |-> made]
Raised(what, made) == [kind |-> "throw", value |-> Str(<<what>>), calls |-> made]

\* lines 172-197, from the fetch of captionUrl on
FetchCaptions(captionUrl, captionResp) ==
    IF captionUrl.t # "str" THEN Raised("TypeError: Invalid URL", <<"page">>)
    ELSE IF ~captionResp.arrives THEN Raised("fetch failed", <<"page", "caption">>)
    ELSE IF ~captionResp.ok THEN Returned(Null, <<"page", "caption">>)
    ELSE IF captionResp.body.shape = "undecodable"
        THEN Raised("SyntaxError", <<"page", "caption">>)
    ELSE IF captionResp.body.shape = "null"
        THEN Raised("TypeError", <<"page", "caption">>)
    ELSE IF captionResp.body.shape = "noEvents" \/ Len(captionResp.body.events) = 0
        THEN Returned(Null, <<"page", "caption">>)
    ELSE Returned(Str(Flatten(captionResp.body.events)), <<"page", "caption">>)

\* lines 145-159: the text handed to JSON.parse, `{${fullCaptionsMatch[1]}}`
CaptionsJsonText(capture) == <<"{">> \o capture \o <<"}">>

\* lines 161-170, from the decoded captionsData on
FetchFromCaptionsData(captionsData, captionResp) ==
    LET renderer == Member(captionsData, "playerCaptionsTracklistRenderer")
        captionTracks == Member(renderer, "captionTracks")
    IN  IF captionTracks.t = "undefined" THEN Returned(Null, <<"page">>)
        ELSE IF captionTracks.t = "arr" /\ Len(captionTracks.v) = 0
            THEN Returned(Null, <<"page">>)
        ELSE IF captionTracks.t # "arr"
            THEN Raised("TypeError", <<"page">>)
        ELSE LET baseUrl == Member(captionTracks.v[1], "baseUrl")
             IN  FetchCaptions(IF baseUrl.t = "str" THEN Str(<<baseUrl.v>>) ELSE Undefined,
                               captionResp)

\* the body of the outer try block, lines 127-197
FetchTranscriptBody(id, pageResp, captionResp) ==
    IF ~pageResp.arrives THEN Raised("fetch failed", <<"page">>)
    ELSE IF ~pageResp.ok THEN Returned(Null, <<"page">>)
    ELSE IF ~PlayerResponseMatch(pageResp.body) THEN Returned(Null, <<"page">>)
    ELSE IF FullCaptionsMatch(pageResp.body) = <<>> THEN Returned(Null, <<"page">>)
    ELSE LET parsed == JsonParse(CaptionsJsonText(FullCaptionsMatch(pageResp.body)))
         IN  IF parsed.kind = "throw" THEN Returned(Null, <<"page">>)
             ELSE FetchFromCaptionsData(parsed.value, captionResp)

\* a mutant of FetchTranscript: the outer try without its catch
FetchTranscript_NoCatch(id, pageResp, captionResp) ==
    FetchTranscriptBody(id, pageResp, captionResp)

\* fetchTranscript: the outer catch, lines 198-201, returns null
FetchTranscript(id, pageResp, captionResp) ==
    LET r == FetchTranscriptBody(id, pageResp, captionResp)
    IN  IF r.kind = "throw" THEN Returned(Null, r.calls) ELSE r

----------------------------------------------------------------------------
(* fetchVideoTitle, index.ts lines 204-219 *)

UnknownVideo == <<"U","n","k","n","o","w","n"," ","V","i","d","e","o">>

\* a mutant of FetchVideoTitle: a non-success status is thrown to the caller
FetchVideoTitle_ThrowsOnStatus(id, resp) ==
    IF resp.arrives /\ ~resp.ok THEN Throw("title lookup failed")
    ELSE IF resp.arrives /\ resp.body.shape = "title" /\ ~Falsy(resp.body.title)
        THEN Return(resp.body.title)
    ELSE Return(Str(UnknownVideo))

\* A title body is [shape, title]: shape "undecodable" (response.json()
\* rejects) or "title", with title the value of data.title.
FetchVideoTitle(id, resp) ==
    IF ~resp.arrives THEN Return(Str(UnknownVideo))
    ELSE IF ~resp.ok THEN Return(Str(UnknownVideo))
    ELSE IF resp.body.shape = "undecodable" THEN Return(Str(UnknownVideo))
    ELSE IF Falsy(resp.body.title) THEN Return(Str(UnknownVideo))
    ELSE Return(resp.body.title)

----------------------------------------------------------------------------
(* summarizeWithAI, index.ts lines 221-271 *)

\* A completion body is [shape, content]:
\*   "undecodable": response.json() rejects;  "noChoices": no choices member;
\*   "emptyChoices": choices is [];  "noMessage": choices[0] has no message;
\*   "message": choices[0].message is an object and content its content member.
\* keyed: LOVABLE_API_KEY is set.
SummarizeWithAI(keyed, resp) ==
    IF ~keyed THEN Raised("LOVABLE_API_KEY not configured", <<>>)
    ELSE IF ~resp.arrives THEN Raised("fetch failed", <<"completion">>)
    ELSE IF ~resp.ok THEN Raised("AI Gateway error", <<"completion">>)
    ELSE IF resp.body.shape = "undecodable" THEN Raised("SyntaxError", <<"completion">>)
    ELSE IF resp.body.shape \in {"noChoices", "emptyChoices", "noMessage"}
        THEN Raised("TypeError", <<"completion">>)
    ELSE Returned(resp.body.content, <<"completion">>)

----------------------------------------------------------------------------
(* The 'summaries' table.  Its schema is not part of the function's source: *)
(* the store assigns id and created_at, and summary is a non-null column.  *)

\* insert(row).select().single(): [error, rows, data]
StoreInsert(rows, row, accepted) ==
    IF accepted /\ row.summary.t = "str"
    THEN LET data == [id |-> Len(rows) + 1, created_at |-> Len(rows) + 1,
                      video_url |-> row.video_url, video_title |-> row.video_title,
                      summary |-> row.summary]
         IN  [error |-> FALSE, rows |-> Append(rows, data), id |-> data.id,
              created_at |-> data.created_at]
    ELSE [error |-> TRUE, rows |-> rows, id |-> 0, created_at |-> 0]

----------------------------------------------------------------------------
(* Inputs *)

\* how many requests a behaviour serves
MaxRequests == 2

Id1 == <<"d","Q","w","4","w","9","W","g","X","c","Q">>
Id2 == <<"a","-","b","_","c","-","d","_","e","-","f">>
Id3 == <<"0","1","2","3","4","5","6","7","8","9","_">>
Ids == {Id1, Id2, Id3}

Https == <<"h","t","t","p","s",":","/","/">>
Www == <<"h","t","t","p","s",":","/","/","w","w","w",".">>
Prefixes == {<<>>, Https, Www}
Markers == {WatchMarker, ShortMarker, EmbedMarker}
\* nothing, or a terminator and further text
Suffixes == {<<>>, <<"&","t","=","1">>, <<"?","s","i","=","x">>, <<"#","t">>,
             <<"\n","x">>}

\* the four input forms of a valid identifier
ValidForms(id) ==
    {p \o m \o id \o x : p \in Prefixes, m \in Markers, x \in Suffixes} \cup {id}

NotAUrl == <<"n","o","t"," ","a"," ","u","r","l">>
ShortShare == ShortMarker \o <<"a","b","c">>
Malformed ==
    {NotAUrl,
     <<>>,
     SubSeq(Id1, 1, 10),
     Id1 \o <<"Q">>,
     <<"d","Q","w","4","w","9","W","g","X","c","!">>,
     <<" ">> \o Id1,
     ShortMarker,
     ShortMarker \o <<"?">> \o Id1,
     ShortShare,
     WatchMarker \o Id1 \o <<"X","Y">>,
     <<"v","i","m","e","o",".","c","o","m","/">> \o Id1,
     <<"y","o","u","t","u","b","e",".","c","o","m","/","w","a","t","c","h","?",
       "t","=","1","&","v","=">> \o Id1}

\* the inputs of extractVideoId
UrlInputs == UNION {ValidForms(id) : id \in Ids} \cup Malformed

\* the strings a request carries as videoUrl
RequestUrls == {Https \o ShortMarker \o Id1, Id2, NotAUrl, ShortShare}

\* the requests: the method, what req.json() yields, and videoUrl in it
\*   json "invalid": req.json() rejects;  "null": the JSON null;
\*   "other": a number, a string, an array;  "object": an object
Request(method, json, url) == [method |-> method, json |-> json, videoUrl |-> url]
Requests ==
    {Request("OPTIONS", "invalid", Undefined),
     Request("POST", "invalid", Undefined),
     Request("POST", "null", Undefined),
     Request("POST", "other", Undefined),
     Request("POST", "object", Undefined),
     Request("POST", "object", Null),
     Request("POST", "object", Str(<<>>)),
     Request("POST", "object", Num(<<"0">>)),
     Request("POST", "object", Num(<<"7">>)),
     Request("POST", "object", Obj)}
    \cup {Request("POST", "object", Str(u)) : u \in RequestUrls}

\* page bodies
Lead == <<"<html>", "captions", ":", "{", "playerCaptionsTracklistRenderer", ":", "{">>
Track(url) == <<"{", "baseUrl", ":", url, "}">>
PageNoMarker == <<"<html>", "title", ":", "x">>
PageNoTracks == Lead \o <<"}", "}", "<html>">>
\* the manifest with captionTracks as the renderer's first member
PageTracksFirst ==
    Lead \o <<"captionTracks", ":", "[">> \o Track("u1") \o <<"]", ",", "audioTracks", ":",
              "[", "]", "}", "}", "<html>">>
PageOneTrack ==
    Lead \o <<"k", ":", "v", ",", "captionTracks", ":", "[">> \o Track("u1")
         \o <<"]", "}", "}", "<html>">>
PageTwoTracks ==
    Lead \o <<"k", ":", "v", ",", "captionTracks", ":", "[">> \o Track("u1") \o <<",">>
         \o Track("u2") \o <<"]", ",", "k2", ":", "v2", "}", "}", "<html>">>
PageEmptyTrackList ==
    Lead \o <<"k", ":", "v", ",", "captionTracks", ":", "[", "]", "}", "}", "<html>">>
PageTrackWithoutUrl ==
    Lead \o <<"k", ":", "v", ",", "captionTracks", ":", "[", "{", "name", ":", "en", "}",
              "]", "}", "}", "<html>">>
PageBrokenManifest ==
    Lead \o <<"k", ",", "captionTracks", ":", "[", "v", ":", "]", "}", "}", "<html>">>
PageBodies ==
    {PageNoMarker, PageNoTracks, PageTracksFirst, PageOneTrack, PageTwoTracks,
     PageEmptyTrackList, PageTrackWithoutUrl, PageBrokenManifest}
PageResponses ==
    {Rejected(<<>>), Answer(FALSE, <<>>)} \cup {Answer(TRUE, b) : b \in PageBodies}

\* caption bodies
Event(segs) == [hasSegs |-> TRUE, segs |-> segs]
NoSegs == [hasSegs |-> FALSE, segs |-> <<>>]
Hello == Str(<<"H","e","l","l","o"," ">>)
World == Str(<<"w","o","r","l","d">>)
Break == Str(<<"\n">>)
CaptionBody(shape, events) == [shape |-> shape, events |-> events]
EventLists ==
    {<<Event(<<Hello>>), Event(<<World>>), NoSegs>>,
     <<Event(<<Hello, World>>)>>,
     <<Event(<<World, Break, World>>), Event(<<Undefined, Hello>>)>>,
     <<NoSegs, Event(<<World>>), Event(<<>>), Event(<<World>>)>>,
     <<NoSegs>>,
     <<Event(<<Break>>), Event(<<Str(<<" ">>)>>)>>}
CaptionResponses ==
    {Rejected(CaptionBody("undecodable", <<>>)),
     Answer(FALSE, CaptionBody("undecodable", <<>>)),
     Answer(TRUE, CaptionBody("undecodable", <<>>)),
     Answer(TRUE, CaptionBody("null", <<>>)),
     Answer(TRUE, CaptionBody("noEvents", <<>>)),
     Answer(TRUE, CaptionBody("events", <<>>))}
    \cup {Answer(TRUE, CaptionBody("events", e)) : e \in EventLists}

\* title bodies
TitleBody(shape, title) == [shape |-> shape, title |-> title]
Title1 == Str(<<"T","1">>)
TitleResponses ==
    {Rejected(TitleBody("undecodable", Undefined)),
     Answer(FALSE, TitleBody("undecodable", Undefined)),
     Answer(TRUE, TitleBody("undecodable", Undefined)),
     Answer(TRUE, TitleBody("title", Undefined)),
     Answer(TRUE, TitleBody("title", Title1))}

\* completion bodies
CompletionBody(shape, content) == [shape |-> shape, content |-> content]
Summary1 == Str(<<"S","1">>)
CompletionResponses ==
    {Rejected(CompletionBody("undecodable", Undefined)),
     Answer(FALSE, CompletionBody("undecodable", Undefined)),
     Answer(TRUE, CompletionBody("undecodable", Undefined)),
     Answer(TRUE, CompletionBody("noChoices", Undefined)),
     Answer(TRUE, CompletionBody("emptyChoices", Undefined)),
     Answer(TRUE, CompletionBody("noMessage", Undefined)),
     Answer(TRUE, CompletionBody("message", Undefined)),
     Answer(TRUE, CompletionBody("message", Str(<<>>))),
     Answer(TRUE, CompletionBody("message", Summary1))}

----------------------------------------------------------------------------
(* The request handler, index.ts lines 10-109 *)

NoRequest == Request("NONE", "invalid", Undefined)
NoAnswer == Rejected(CompletionBody("undecodable", Undefined))
NoTitleAnswer == Rejected(TitleBody("undecodable", Undefined))
NoPrompt == [transcript |-> Undefined, title |-> Undefined, fallback |-> FALSE]
NotKeyed == [keyed |-> FALSE, resp |-> NoAnswer]
NoCall == [name |-> "none"]

\* a Response: kind "none" (no body), "error" ({ error }) or "success"
Response(status, kind, sum, title, id, at) ==
    [status |-> status, kind |-> kind, summary |-> sum, videoTitle |-> title,
     id |-> id, created_at |-> at]
NoResponse == Response(0, "none", Undefined, Undefined, 0, 0)
ErrorResponse(status) == Response(status, "error", Undefined, Undefined, 0, 0)

\* the fixed fallback instruction text, lines 49-59, up to "Video URL: "
FallbackInstructions == <<"TRANSCRIPT NOT AVAILABLE. [...] Video URL: ">>
FallbackTranscript(url) == Str(FallbackInstructions \o url.s)

HandlerInit ==
    /\ pc = "idle"
    /\ req = NoRequest
    /\ videoUrl = Undefined
    /\ videoId = Undefined
    /\ transcript = Undefined
    /\ videoTitle = Undefined
    /\ summary = Undefined
    /\ prompt = NoPrompt
    /\ calls = <<>>
    /\ thrown = "none"
    /\ response = NoResponse
    /\ titleResp = NoTitleAnswer
    /\ completionResp = NotKeyed
    /\ store = <<>>
    /\ log = <<>>

Init == HandlerInit /\ fn = NoCall

\* a request arrives
Receive ==
    /\ pc = "idle"
    /\ Len(log) < MaxRequests
    /\ \E r \in Requests : req' = r
    /\ pc' = "serve"
    /\ UNCHANGED <<videoUrl, videoId, transcript, videoTitle, summary, prompt, calls,
                   thrown, response, titleResp, completionResp, store, log, fn>>

\* lines 11-13: the preflight
Preflight ==
    /\ pc = "serve"
    /\ req.method = "OPTIONS"
    /\ response' = Response(200, "none", Undefined, Undefined, 0, 0)
    /\ pc' = "done"
    /\ UNCHANGED <<req, videoUrl, videoId, transcript, videoTitle, summary, prompt, calls,
                   thrown, titleResp, completionResp, store, log, fn>>

\* lines 16-23: req.json(), the destructuring, and the check of videoUrl
ReadBody ==
    /\ pc = "serve"
    /\ req.method # "OPTIONS"
    /\ IF req.json \in {"invalid", "null"}
       THEN /\ thrown' = "json"
            /\ pc' = "catch"
            /\ UNCHANGED <<videoUrl, response>>
       ELSE /\ videoUrl' = IF req.json = "object" THEN req.videoUrl ELSE Undefined
            /\ IF Falsy(videoUrl')
               THEN response' = ErrorResponse(400) /\ pc' = "done"
               ELSE response' = response /\ pc' = "extract"
            /\ UNCHANGED thrown
    /\ UNCHANGED <<req, videoId, transcript, videoTitle, summary, prompt, calls,
                   titleResp, completionResp, store, log, fn>>

\* lines 28-34
ExtractStep ==
    /\ pc = "extract"
    /\ LET r == ExtractVideoIdCall(videoUrl)
       IN  IF r.kind = "throw"
           THEN thrown' = "extract" /\ pc' = "catch" /\ UNCHANGED <<videoId, response>>
           ELSE /\ videoId' = r.value
                /\ IF Falsy(r.value)
                   THEN response' = ErrorResponse(400) /\ pc' = "done"
                   ELSE response' = response /\ pc' = "transcript"
                /\ UNCHANGED thrown
    /\ UNCHANGED <<req, videoUrl, transcript, videoTitle, summary, prompt, calls,
                   titleResp, completionResp, store, log, fn>>

\* line 39
TranscriptStep ==
    /\ pc = "transcript"
    /\ \E pageResp \in PageResponses, captionResp \in CaptionResponses :
          LET r == FetchTranscript(videoId, pageResp, captionResp)
          IN  IF r.kind = "throw"
              THEN thrown' = "transcript" /\ pc' = "catch" /\ calls' = calls \o r.calls
                   /\ UNCHANGED transcript
              ELSE transcript' = r.value /\ pc' = "title" /\ calls' = calls \o r.calls
                   /\ UNCHANGED thrown
    /\ UNCHANGED <<req, videoUrl, videoId, videoTitle, summary, prompt, response,
                   titleResp, completionResp, store, log, fn>>

\* a mutant of TitleStep: the lookup is retried once more before the summary
TitleStep_Retries ==
    /\ pc \in {"title", "summarize"}
    /\ Len(calls) < 4
    /\ \E resp \in TitleResponses :
          /\ titleResp' = resp
          /\ calls' = Append(calls, "title")
          /\ videoTitle' = FetchVideoTitle(videoId, resp).value
          /\ pc' = "summarize"
    /\ UNCHANGED <<req, videoUrl, videoId, transcript, summary, prompt, response,
                   thrown, completionResp, store, log, fn>>

\* line 42
TitleStep ==
    /\ pc = "title"
    /\ \E resp \in TitleResponses :
          LET r == FetchVideoTitle(videoId, resp)
          IN  /\ titleResp' = resp
              /\ calls' = Append(calls, "title")
              /\ IF r.kind = "throw"
                 THEN thrown' = "title" /\ pc' = "catch" /\ UNCHANGED videoTitle
                 ELSE videoTitle' = r.value /\ pc' = "summarize" /\ UNCHANGED thrown
    /\ UNCHANGED <<req, videoUrl, videoId, transcript, summary, prompt, response,
                   completionResp, store, log, fn>>

\* what line 66 does with the summary: summary.length of a string
LogSummaryLength(sum) == IF sum.t = "str" THEN Return(sum) ELSE Throw("TypeError")

\* lines 45-67
SummarizeStep ==
    /\ pc = "summarize"
    /\ \E keyed \in BOOLEAN, resp \in CompletionResponses :
          LET fallback == Falsy(transcript)
              text == IF fallback THEN FallbackTranscript(videoUrl) ELSE transcript
              r == SummarizeWithAI(keyed, resp)
              logged == IF fallback THEN Return(r.value) ELSE LogSummaryLength(r.value)
          IN  /\ keyed \/ resp = NoAnswer
              /\ completionResp' = [keyed |-> keyed, resp |-> resp]
              /\ prompt' = [transcript |-> text, title |-> videoTitle, fallback |-> fallback]
              /\ calls' = calls \o r.calls
              /\ IF r.kind = "throw"
                 THEN thrown' = "summarize" /\ pc' = "catch" /\ UNCHANGED summary
                 ELSE IF logged.kind = "throw"
                 THEN thrown' = "log" /\ pc' = "catch" /\ summary' = r.value
                 ELSE summary' = r.value /\ pc' = "insert" /\ UNCHANGED thrown
    /\ UNCHANGED <<req, videoUrl, videoId, transcript, videoTitle, response,
                   titleResp, store, log, fn>>

\* a mutant of InsertStep: the error of the insert is not looked at
InsertStep_IgnoresError ==
    /\ pc = "insert"
    /\ \E accepted \in BOOLEAN :
          LET r == StoreInsert(store, [video_url |-> videoUrl, video_title |-> videoTitle,
                                       summary |-> summary], accepted)
          IN  /\ calls' = Append(calls, "insert")
              /\ store' = r.rows
              /\ response' = Response(200, "success", summary, videoTitle,
                                      r.id, r.created_at)
              /\ pc' = "done"
    /\ UNCHANGED <<req, videoUrl, videoId, transcript, videoTitle, summary, prompt,
                   thrown, titleResp, completionResp, log, fn>>

\* lines 70-100: createClient (which throws when SUPABASE_URL is not set), the
\* insert and, without an error, the success response
InsertStep ==
    /\ pc = "insert"
    /\ \E configured \in BOOLEAN, accepted \in BOOLEAN :
          LET r == StoreInsert(store, [video_url |-> videoUrl, video_title |-> videoTitle,
                                       summary |-> summary], accepted)
          IN  IF ~configured
              THEN /\ thrown' = "createClient"
                   /\ pc' = "catch"
                   /\ UNCHANGED <<calls, store, response>>
              ELSE /\ calls' = Append(calls, "insert")
                   /\ store' = r.rows
                   /\ IF r.error
                      THEN thrown' = "insert" /\ pc' = "catch" /\ UNCHANGED response
                      ELSE /\ response' = Response(200, "success", summary, videoTitle,
                                                   r.id, r.created_at)
                           /\ pc' = "done"
                           /\ UNCHANGED thrown
    /\ UNCHANGED <<req, videoUrl, videoId, transcript, videoTitle, summary, prompt,
                   titleResp, completionResp, log, fn>>

\* lines 101-108
CatchStep ==
    /\ pc = "catch"
    /\ response' = ErrorResponse(500)
    /\ pc' = "done"
    /\ UNCHANGED <<req, videoUrl, videoId, transcript, videoTitle, summary, prompt, calls,
                   thrown, titleResp, completionResp, store, log, fn>>

\* the response is sent; the invocation's locals are gone
Finish ==
    /\ pc = "done"
    /\ log' = Append(log, [status |-> response.status, kind |-> response.kind,
                           id |-> response.id,
                           videoUrl |-> IF response.kind = "success" THEN videoUrl
                                        ELSE Undefined,
                           inserted |-> \E k \in 1..Len(calls) : calls[k] = "insert"])
    /\ pc' = "idle"
    /\ req' = NoRequest
    /\ videoUrl' = Undefined
    /\ videoId' = Undefined
    /\ transcript' = Undefined
    /\ videoTitle' = Undefined
    /\ summary' = Undefined
    /\ prompt' = NoPrompt
    /\ calls' = <<>>
    /\ thrown' = "none"
    /\ response' = NoResponse
    /\ titleResp' = NoTitleAnswer
    /\ completionResp' = NotKeyed
    /\ UNCHANGED <<store, fn>>

Next ==
    \/ Receive
    \/ Preflight
    \/ ReadBody
    \/ ExtractStep
    \/ TranscriptStep
    \/ TitleStep
    \/ SummarizeStep
    \/ InsertStep
    \/ CatchStep
    \/ Finish

Spec == Init /\ [][Next]_vars

----------------------------------------------------------------------------
(* extractVideoId alone: one call on each input *)

InitExtractVideoId ==
    /\ HandlerInit
    /\ fn \in {[name |-> "extractVideoId", url |-> u, returned |-> FALSE,
                result |-> Undefined] : u \in UrlInputs}

CallExtractVideoId ==
    /\ fn.name = "extractVideoId"
    /\ ~fn.returned
    /\ fn' = [fn EXCEPT !.returned = TRUE, !.result = ExtractVideoId(fn.url)]
    /\ UNCHANGED handlerVars

SpecExtractVideoId == InitExtractVideoId /\ [][CallExtractVideoId]_vars

(* fetchTranscript alone: one call for each answer of the page and of the   *)
(* caption track                                                           *)

InitFetchTranscript ==
    /\ HandlerInit
    /\ fn \in {[name |-> "fetchTranscript", id |-> Str(id), pageResp |-> p,
                captionResp |-> c, returned |-> FALSE,
                outcome |-> Returned(Undefined, <<>>)] :
                    id \in {Id1}, p \in PageResponses, c \in CaptionResponses}

CallFetchTranscript ==
    /\ fn.name = "fetchTranscript"
    /\ ~fn.returned
    /\ fn' = [fn EXCEPT !.returned = TRUE,
                        !.outcome = FetchTranscript(fn.id, fn.pageResp, fn.captionResp)]
    /\ UNCHANGED handlerVars

SpecFetchTranscript == InitFetchTranscript /\ [][CallFetchTranscript]_vars

(* The handler from line 45 on, for every value that the flattening of      *)
(* lines 172-197 can hand back as the transcript: the two lookups of lines  *)
(* 39 and 42 have returned, the caption track having answered captionResp.  *)

InitAfterLookups ==
    /\ pc = "summarize"
    /\ \E u \in {x \in RequestUrls : ~Falsy(ExtractVideoId(x))},
          c \in CaptionResponses, t \in TitleResponses :
          /\ req = Request("POST", "object", Str(u))
          /\ videoUrl = Str(u)
          /\ videoId = ExtractVideoId(u)
          /\ fn = [name |-> "afterLookups", captionResp |-> c]
          /\ transcript = FetchCaptions(Str(<<"u1">>), c).value
          /\ titleResp = t
          /\ videoTitle = FetchVideoTitle(ExtractVideoId(u), t).value
    /\ summary = Undefined
    /\ prompt = NoPrompt
    /\ calls = <<"page", "caption", "title">>
    /\ thrown = "none"
    /\ response = NoResponse
    /\ completionResp = NotKeyed
    /\ store = <<>>
    /\ log = <<>>

NextAfterLookups ==
    \/ SummarizeStep
    \/ InsertStep
    \/ CatchStep

SpecAfterLookups == InitAfterLookups /\ [][NextAfterLookups]_vars

----------------------------------------------------------------------------
(* Properties *)

Called(name) == \E k \in 1..Len(calls) : calls[k] = name
Successes == SelectSeq(log, LAMBDA e : e.kind = "success")
Failed == pc = "done" /\ response.status \in {400, 500}

\* every finished success has its row, in order, and every row its success
RowPerSuccess ==
    /\ Len(store) = Len(Successes)
    /\ \A k \in 1..Len(store) :
          /\ store[k].id = Successes[k].id
          /\ store[k].video_url = Successes[k].videoUrl
DistinctIds == \A j, k \in 1..Len(store) : store[j].id = store[k].id => j = k
CompletionAnswered == completionResp.keyed /\ completionResp.resp.arrives
CompletionHttpError == CompletionAnswered /\ ~completionResp.resp.ok

\* C1 as stated: between requests the store holds exactly one row per request
\* that returned the success payload, with pairwise distinct ids, and a request
\* that ends in 400 or 500 has never attempted the insert.
C1_AsStated ==
    /\ pc = "idle" => RowPerSuccess
    /\ DistinctIds
    /\ Failed => ~Called("insert") /\ Len(store) = Len(Successes)

\* C1 amended: between requests the store holds exactly one row per request
\* that returned the success payload, with pairwise distinct ids; a request
\* that ends in 400 or 500 leaves no row; it has not attempted the insert
\* unless the 500 comes from the insert itself; and after a non-success status
\* of the completion endpoint the insert is never attempted.
C1_StoreMatchesSuccesses ==
    /\ pc = "idle" => RowPerSuccess
    /\ DistinctIds
    /\ Failed => Len(store) = Len(Successes)
    /\ Failed /\ thrown # "insert" => ~Called("insert")
    /\ CompletionHttpError => ~Called("insert")

\* C1 witness: the same URL summarized twice, two rows with different ids
C1_Witness ==
    /\ pc = "idle"
    /\ Len(store) = 2
    /\ store[1].video_url = store[2].video_url
    /\ store[1].id # store[2].id
    /\ Len(Successes) = 2

\* the decoded body's videoUrl, where req.json() and the destructuring succeed
Decoded(r) == IF r.json = "object" THEN r.videoUrl ELSE Undefined
UrlMissing(r) ==
    /\ r.method = "POST"
    /\ r.json \in {"object", "other"}
    /\ Decoded(r).t \in {"undefined", "null"} \/ Decoded(r) = Str(<<>>)
NoIdInUrl(r) ==
    /\ r.method = "POST"
    /\ r.json = "object"
    /\ r.videoUrl.t = "str"
    /\ r.videoUrl.s # <<>>
    /\ ExtractVideoId(r.videoUrl.s) = Null

\* C2: a request whose videoUrl is missing, or from whose videoUrl
\* extractVideoId yields no ID, makes no outbound call and no insert at any
\* point, adds no row, and ends with status 400 and an { error } body.
C2_InvalidInputIs400 ==
    (UrlMissing(req) \/ NoIdInUrl(req)) =>
        /\ calls = <<>>
        /\ Len(store) = Len(Successes)
        /\ pc \notin {"transcript", "title", "summarize", "insert", "catch"}
        /\ pc = "done" => response.status = 400 /\ response.kind = "error"

\* C2 witness: "not a url" answered with 400
C2_Witness ==
    /\ pc = "done"
    /\ req.videoUrl = Str(NotAUrl)
    /\ videoId = Null
    /\ response.status = 400

\* the page holds "captions": followed by a manifest that is well-formed JSON
\* with a non-empty captionTracks array whose first track has a baseUrl
WellFormedManifest(toks) ==
    \E i \in 1..Len(toks) :
        /\ i + 2 <= Len(toks)
        /\ toks[i] = "captions" /\ toks[i + 1] = ":"
        /\ LET r == ParseValue(toks, i + 2)
               tracks == Member(Member(r.val, "playerCaptionsTracklistRenderer"),
                                "captionTracks")
           IN  /\ r.ok
               /\ r.val.t = "obj"
               /\ tracks.t = "arr"
               /\ Len(tracks.v) >= 1
               /\ Member(tracks.v[1], "baseUrl").t = "str"
EventsAnswered(c) ==
    c.arrives /\ c.ok /\ c.body.shape = "events" /\ Len(c.body.events) >= 1

\* C3: when the page fetch succeeds, the page holds the captions marker with a
\* well-formed manifest of at least one track, and the caption fetch succeeds
\* with a non-empty event list, fetchTranscript returns the flattening of
\* those events.
C3_TranscriptIsFlattening ==
    (/\ fn.name = "fetchTranscript"
     /\ fn.returned
     /\ fn.pageResp.arrives /\ fn.pageResp.ok
     /\ WellFormedManifest(fn.pageResp.body)
     /\ EventsAnswered(fn.captionResp))
    => /\ fn.outcome.kind = "return"
       /\ fn.outcome.value = Str(Flatten(fn.captionResp.body.events))

\* one of the steps of fetchTranscript fails
StepFails(p, c) ==
    \/ ~p.arrives
    \/ ~p.ok
    \/ ~WellFormedManifest(p.body)
    \/ ~EventsAnswered(c)

\* C4: fetchTranscript never raises, and returns null whenever one of its
\* steps fails.
C4_NeverRaises ==
    (fn.name = "fetchTranscript" /\ fn.returned) =>
        /\ fn.outcome.kind = "return"
        /\ StepFails(fn.pageResp, fn.captionResp) => fn.outcome.value = Null

\* C4 witness: the page fetch rejects and null is returned
C4_Witness ==
    /\ fn.name = "fetchTranscript"
    /\ fn.returned
    /\ ~fn.pageResp.arrives
    /\ fn.outcome.kind = "return"
    /\ fn.outcome.value = Null

TitleLookupFailed ==
    \/ ~titleResp.arrives
    \/ ~titleResp.ok
    \/ titleResp.body.shape = "undecodable"
    \/ titleResp.body.title.t # "str"
CompletionSucceeded ==
    /\ CompletionAnswered
    /\ completionResp.resp.ok
    /\ completionResp.resp.body.shape = "message"
    /\ completionResp.resp.body.content.t = "str"

\* C5: with an absent transcript the summarizer is given the fixed fallback
\* text followed by the request's videoUrl; after a failed title lookup the
\* title is "Unknown Video"; and in both cases the request returns the success
\* payload provided the completion call and the insert succeed.
C5_DegradedStillSucceeds ==
    /\ (prompt # NoPrompt /\ transcript = Null) =>
          prompt.transcript = Str(FallbackInstructions \o req.videoUrl.s)
    /\ (Called("title") /\ pc # "catch" /\ TitleLookupFailed) =>
          videoTitle = Str(UnknownVideo)
    /\ (Called("title") /\ TitleLookupFailed) => thrown # "title"
    /\ (Called("page") /\ transcript = Null) => thrown # "transcript"
    /\ (/\ pc = "done"
        /\ Called("title")
        /\ transcript = Null \/ TitleLookupFailed
        /\ CompletionSucceeded
        /\ thrown \notin {"createClient", "insert"})
       => /\ response.status = 200
          /\ response.kind = "success"
          /\ response.videoTitle = videoTitle

\* C5 witness: no transcript, the title lookup answered a non-success status,
\* and the success payload carries "Unknown Video"
C5_Witness ==
    /\ pc = "done"
    /\ transcript = Null
    /\ titleResp.arrives /\ ~titleResp.ok
    /\ prompt.fallback
    /\ response.kind = "success"
    /\ response.videoTitle = Str(UnknownVideo)

CompletionMalformed ==
    /\ CompletionAnswered
    /\ completionResp.resp.ok
    /\ \/ completionResp.resp.body.shape \in {"noChoices", "emptyChoices", "noMessage"}
       \/ /\ completionResp.resp.body.shape = "message"
          /\ completionResp.resp.body.content.t = "undefined"

\* C6: after a success status of the completion endpoint with a malformed
\* payload, the insert is never issued, nothing is persisted and the request
\* ends in status 500.
C6_MalformedNeverInserted ==
    CompletionMalformed =>
        /\ ~Called("insert")
        /\ Len(store) = Len(Successes)
        /\ pc = "done" => response.status = 500

\* C7: the summary of a success response and of its row is a non-empty string
\* and is the content the completion endpoint returned in this request.
C7_SummaryIsCompletionText ==
    (pc = "done" /\ response.kind = "success") =>
        /\ response.summary.t = "str"
        /\ response.summary.s # <<>>
        /\ response.summary = completionResp.resp.body.content
        /\ store[Len(store)].summary = response.summary
        /\ response.summary # prompt.transcript

\* C8: a POST request ends in 500 only when the summarizer call or the insert
\* failed, and a request that is neither a client error nor such a failure
\* returns the success payload with summary, videoTitle, id and created_at.
C8_StatusesExhaustive ==
    (pc = "done" /\ req.method = "POST") =>
        /\ response.status = 500 =>
              thrown \in {"summarize", "log", "createClient", "insert"}
        /\ response.status \in {200, 400, 500}
        /\ response.status = 200 =>
              /\ response.kind = "success"
              /\ response.id = store[Len(store)].id
              /\ response.created_at = store[Len(store)].created_at

Rank(call) ==
    CASE call = "page" -> 1
      [] call = "caption" -> 2
      [] call = "title" -> 3
      [] call = "completion" -> 4
      [] call = "insert" -> 5
      [] OTHER -> 0
RankAsStated(call) ==
    CASE call = "title" -> 1
      [] call = "page" -> 2
      [] call = "caption" -> 3
      [] call = "completion" -> 4
      [] call = "insert" -> 5
      [] OTHER -> 0
\* what holds of a request's steps whatever the order of the two lookups
StepsOnceAndAfterExtraction ==
    /\ calls # <<>> => videoId.t = "str" /\ videoId.s # <<>>
    /\ Called("completion") => prompt # NoPrompt /\ Called("title") /\ Called("page")
    /\ Called("insert") => Called("completion") /\ thrown \notin {"summarize", "log"}
    /\ response.kind = "success" => calls[Len(calls)] = "insert"
    /\ response # NoResponse => pc = "done"

InValidForm(url, id) == url \in ValidForms(id)
\* an input in which no marker is followed by a character that can be
\* captured, and which is no 11-character token
MatchesNeither(url) ==
    /\ \A i \in 1..Len(url), m \in Markers :
          StartsWithAt(url, i, m) =>
              \/ i + Len(m) > Len(url)
              \/ url[i + Len(m)] \in {"&", "\n", "?", "#"}
    /\ Len(url) # 11 \/ \E k \in 1..Len(url) : url[k] \notin IdChars

\* C10: for every identifier ID of 11 characters of [A-Za-z0-9_-],
\* extractVideoId returns ID on youtube.com/watch?v=ID, youtu.be/ID and
\* youtube.com/embed/ID (also with a terminator and further text after it) and
\* on ID itself, and null on an input that matches neither pattern.
C10_ExtractsId ==
    (fn.name = "extractVideoId" /\ fn.returned) =>
        /\ \A id \in Ids : InValidForm(fn.url, id) => fn.result = Str(id)
        /\ MatchesNeither(fn.url) => fn.result = Null
        /\ fn.url = NotAUrl => fn.result = Null

\* C10 witness: a watch URL with a fragment after the identifier
C10_Witness ==
    /\ fn.name = "extractVideoId"
    /\ fn.returned
    /\ fn.url = Www \o WatchMarker \o Id1 \o <<"#","t">>
    /\ fn.result = Str(Id1)

\* an 11-character identifier of [A-Za-z0-9_-]
IsVideoIdentifier(v) ==
    /\ v.t = "str"
    /\ Len(v.s) = 11
    /\ \A k \in 1..Len(v.s) : v.s[k] \in IdChars

\* C11: the result of extractVideoId is null or an 11-character identifier of
\* [A-Za-z0-9_-], and a request that makes an outbound call makes it with such
\* an identifier.
C11_ResultIsIdentifier ==
    /\ (fn.name = "extractVideoId" /\ fn.returned) =>
          fn.result = Null \/ IsVideoIdentifier(fn.result)
    /\ calls # <<>> => IsVideoIdentifier(videoId)

\* a non-empty event list whose flattening is empty: no event carries
\* segments, or all the text there is is white space
NoTextIn(events) ==
    /\ Len(events) >= 1
    /\ \A k \in 1..Len(events) :
          events[k].hasSegs =>
              \A j \in 1..Len(events[k].segs) :
                  \/ events[k].segs[j].t # "str"
                  \/ \A i \in 1..Len(events[k].segs[j].s) :
                        events[k].segs[j].s[i] \in {" ", "\t", "\n"}

====
